---- MODULE Spec2Model ----
(***************************************************************************)
(* Hybrid retrieval and relevance ranking of                               *)
(* backend/app/services/search.py: one hybrid_search call, from the parse  *)
(* of the admin guidance to the category-partitioned list it returns.      *)
(*                                                                         *)
(* Scores are exact rationals kept as integers in units of 1/400           *)
(* (ScoreOne = 1.0), so that the weights 0.7 / 0.3 and the multipliers     *)
(* 1.5, 3.0 and 10.0 stay integral; binary floating-point rounding is not  *)
(* modelled.  Text is a sequence of whitespace-separated words; a Python   *)
(* None text is NoneText.                                                  *)
(***************************************************************************)
EXTENDS Integers, Sequences, FiniteSets, TLC

\* the locals of the hybrid_search call that is running
VARIABLES pc, provider, limit, admin_input, null_titles, search_directive,
          vector_results, instructor_results, fulltext_results,
          combined, final_results, llm_reply, rerank_error, reranked, result, raised
\* db_client: DatabaseClient._client of the module-level instance db;
\* running: which call runs; other: the locals of the call that does not
VARIABLES db_client, running, other
\* response_data: the rows (item ids) the query of a fulltext_search that is
\* called on its own returns
VARIABLES response_data

vars == <<pc, provider, limit, admin_input, null_titles, search_directive,
          vector_results, instructor_results, fulltext_results,
          combined, final_results, llm_reply, rerank_error, reranked, result, raised,
          db_client, running, other, response_data>>

(***************************************************************************)
(* Bounds of the model                                                     *)
(***************************************************************************)
NumItems == 4
MaxLimit == 2
MaxVecRows == 3
MaxLexRows == 2
ParseMaxWords == 4
PairNumItems == 2
PairMaxRows == 1
LexMaxRows == 11

(***************************************************************************)
(* Program constants                                                       *)
(***************************************************************************)
ScoreOne == 400
VectorWeightTenths == 7
FulltextWeightTenths == 3
VectorSearchBatchLimit == 100
RerankBatchSize == 20
LeafLevel == 4

None == "None"
NoLevel == 0
NonNumeric == 0 - 1

Min(a, b) == IF a < b THEN a ELSE b
Max(a, b) == IF a > b THEN a ELSE b

\* Python slice s[:n]
Take(s, n) == SubSeq(s, 1, Min(Max(n, 0), Len(s)))
\* Python slice s[n:]
Drop(s, n) == SubSeq(s, Min(Max(n, 0), Len(s)) + 1, Len(s))

\* dict.get(key) with default None
Get(rec, key, dflt) == IF key \in DOMAIN rec THEN rec[key] ELSE dflt
\* dict[key] = value
Put(rec, key, value) == [k \in DOMAIN rec \cup {key} |-> IF k = key THEN value ELSE rec[k]]

(***************************************************************************)
(* Text                                                                    *)
(***************************************************************************)
NoneText == [isNone |-> TRUE, w |-> <<>>]
Txt(words) == [isNone |-> FALSE, w |-> words]

\* str.lower() on one word of the vocabulary
Lower(word) ==
  CASE word = "Jane" -> "jane"
    [] word = "Doe" -> "doe"
    [] word = "Pricing" -> "pricing"
    [] word = "Basics" -> "basics"
    [] OTHER -> word
LowerSeq(words) == [i \in 1..Len(words) |-> Lower(words[i])]

\* needle in haystack, on whole words
Contains(haystack, needle) ==
  \E i \in 0..(Len(haystack) - Len(needle)) :
     \A j \in 1..Len(needle) : haystack[i + j] = needle[j]

\* x or y, on text (None and "" are falsy)
TextOr(x, y) == IF x.isNone \/ x.w = <<>> THEN y ELSE x

(***************************************************************************)
(* parse_admin_search_directive                                            *)
(***************************************************************************)
course_keywords ==
  { <<"search", "the", "course">>, <<"check", "the", "course">>,
    <<"look", "in", "the", "course">>, <<"course", "first">>,
    <<"prioritize", "course">>, <<"from", "the", "course">>,
    <<"search", "course">>, <<"check", "course">>, <<"look", "in", "course">>,
    <<"share", "lessons">>, <<"use", "lessons">>, <<"from", "lessons">>,
    <<"share", "transcript">>, <<"use", "transcript">>, <<"from", "transcript">>,
    <<"check", "transcript">>, <<"look", "in", "transcript">> }

course_only_keywords ==
  { <<"only", "the", "course">>, <<"just", "the", "course">>,
    <<"course", "only">>, <<"only", "course">>, <<"just", "course">>,
    <<"only", "transcript">>, <<"just", "transcript">>,
    <<"only", "lessons">>, <<"just", "lessons">> }

\* [A-Z][a-z]+ under re.IGNORECASE: any word of letters, two or more long.
\* Every word of the vocabulary is such a word.
IsNameWord(word) == word \notin {"a", "I"}

IsTrigger(word) == Lower(word) \in {"from", "share", "use"}
IsLesson(word) == Lower(word) \in {"lesson", "lessons"}
IsTail(word) == Lower(word) \in {"transcript", "lesson", "lessons", "course"}

AllNameWords(g, a, b) == \A k \in a..b : IsNameWord(g[k])

\* Pattern 1 anchored at trigger word i, with the optional groups taken
\* (o1, o2) and a name of n words: the span of the name when it matches.
P1Name(g, i, o1, o2, n) ==
  LET a1 == i + 1
      a2 == a1 + (IF o1 THEN 2 ELSE 0)
      a3 == a2 + (IF o2 THEN 2 ELSE 0)
      b  == a3 + n - 1
  IN  [ok |-> /\ i \in 1..Len(g) /\ IsTrigger(g[i])
              /\ b + 1 <= Len(g)
              /\ (o1 => IsLesson(g[a1]) /\ Lower(g[a1 + 1]) = "from")
              /\ (o2 => Lower(g[a2]) = "transcript" /\ Lower(g[a2 + 1]) = "from")
              /\ n >= 2 /\ AllNameWords(g, a3, b)
              /\ IsTail(g[b + 1]),
       from |-> a3, to |-> b]

\* The backtracking order of re.search: leftmost start, optional groups
\* taken before skipped, longest name first.
P1Rank(g, i, o1, o2, n) ==
  ((Len(g) - i) * 4 + (IF o1 THEN 2 ELSE 0) + (IF o2 THEN 1 ELSE 0)) * (Len(g) + 1) + n

P1Matches(g) ==
  { m \in [i : 1..Len(g), o1 : BOOLEAN, o2 : BOOLEAN, n : 2..Len(g)] :
      P1Name(g, m.i, m.o1, m.o2, m.n).ok }

P1Best(g) ==
  CHOOSE m \in P1Matches(g) :
    \A x \in P1Matches(g) :
      P1Rank(g, x.i, x.o1, x.o2, x.n) <= P1Rank(g, m.i, m.o1, m.o2, m.n)

\* Pattern 2: two name words followed by a tail word, leftmost.
P2Starts(g) ==
  { i \in 1..Len(g) : i + 2 <= Len(g) /\ AllNameWords(g, i, i + 1) /\ IsTail(g[i + 2]) }

\* Pattern 3: "from", then two or more name words up to the end, leftmost.
P3Starts(g) ==
  { i \in 1..Len(g) : Lower(g[i]) = "from" /\ Len(g) - i >= 2 /\ AllNameWords(g, i + 1, Len(g)) }

SetMin(S) == CHOOSE x \in S : \A y \in S : x <= y

\* The first pattern of name_patterns that matches gives group(1).
name_patterns(g) ==
  IF P1Matches(g) # {} THEN
       LET m == P1Best(g)
           r == P1Name(g, m.i, m.o1, m.o2, m.n)
       IN  Txt(SubSeq(g, r.from, r.to))
  ELSE IF P2Starts(g) # {} THEN
       LET i == SetMin(P2Starts(g)) IN Txt(SubSeq(g, i, i + 1))
  ELSE IF P3Starts(g) # {} THEN
       LET i == SetMin(P3Starts(g)) IN Txt(SubSeq(g, i + 1, Len(g)))
  ELSE NoneText

\* DefaultDirective with course content prioritized
DefaultDirectivePrioritized ==
  [prioritize_courses |-> TRUE, course_only |-> FALSE, instructor_filter |-> NoneText]

DefaultDirective ==
  [prioritize_courses |-> FALSE, course_only |-> FALSE, instructor_filter |-> NoneText]

\* parse_admin_search_directive without the line that sets prioritize_courses
\* when a name is found
parse_directive_keywords_only(input) ==
  IF input.isNone \/ input.w = <<>> THEN DefaultDirective
  ELSE
    LET admin_lower == LowerSeq(input.w)
    IN  [prioritize_courses |-> \E kw \in course_keywords : Contains(admin_lower, kw),
         course_only |-> \E kw \in course_only_keywords : Contains(admin_lower, kw),
         instructor_filter |-> name_patterns(input.w)]

parse_admin_search_directive(input) ==
  IF input.isNone \/ input.w = <<>> THEN DefaultDirective
  ELSE
    LET admin_lower == LowerSeq(input.w)
        instructor_filter == name_patterns(input.w)
    IN  [prioritize_courses |->
            \/ \E kw \in course_keywords : Contains(admin_lower, kw)
            \/ ~instructor_filter.isNone,
         course_only |-> \E kw \in course_only_keywords : Contains(admin_lower, kw),
         instructor_filter |-> instructor_filter]

\* The admin guidance texts of a search in the model (the parse of every other
\* short guidance is covered by SpecParse)
Guidances ==
  { NoneText,
    Txt(<<"prioritize", "course">>),
    Txt(<<"course", "only">>),
    Txt(<<"only", "share", "lessons", "from", "Jane", "Doe", "transcript">>),
    Txt(<<"check", "the", "course", "first">>) }


(***************************************************************************)
(* The datastore (table knowledge_items), read-only during a call.         *)
(* Item ids are 1..NumItems; the columns of an item follow from its id.    *)
(* null_titles says whether the last item has no title in any column.      *)
(***************************************************************************)
ItemIds == 1..NumItems

ItemKind(id) == ((id - 1) % 4) + 1

StoreItem(id, nulls) ==
  LET k == ItemKind(id) IN
  [ id |-> id,
    question |->
      CASE k = 1 -> Txt(<<"Jane", "Doe", "Pricing", "Basics">>)
        [] k = 3 -> Txt(<<"pricing", "basics">>)
        [] k = 4 -> IF nulls THEN NoneText ELSE Txt(<<"check", "the", "pricing">>)
        [] OTHER -> NoneText,
    question_raw |-> IF k = 2 THEN Txt(<<"pricing">>) ELSE NoneText,
    question_enriched |-> NoneText,
    answer |-> Txt(<<"text">>),
    content_type |->
      CASE k = 1 -> "video" [] k = 2 -> "facebook" [] k = 3 -> "facebook" [] OTHER -> "manual",
    course_id |-> IF k \in {1, 3} THEN "c1" ELSE None,
    hierarchy_level |-> CASE k = 1 -> LeafLevel [] k = 3 -> 3 [] OTHER -> NoLevel ]

\* Similarity the vector RPC reports for the row at position p (sorted by the database)
SimAt(p) == CASE p = 1 -> 360 [] p = 2 -> 320 [] OTHER -> Max(0, 320 - 40 * p)

\* Sequences of distinct item ids, at most n long
DistinctSeqs(n) ==
  UNION { { q \in [1..k -> ItemIds] : \A i, j \in 1..k : i # j => q[i] # q[j] } : k \in 0..n }
\* ... in ascending id order
AscendingSeqs(n) ==
  { q \in DistinctSeqs(n) : \A i \in 1..(Len(q) - 1) : q[i] < q[i + 1] }

DbError == <<0>>

(***************************************************************************)
(* vector_search: the rows of the RPC, transformed, cut to limit           *)
(***************************************************************************)
VectorRow(item, p) ==
  [ id |-> item.id,
    question |-> TextOr(item.question_enriched, TextOr(item.question_raw, item.question)),
    answer |-> item.answer,
    score |-> SimAt(p),
    match_type |-> "vector",
    content_type |-> item.content_type,
    course_id |-> item.course_id ]

vector_batch_limit(lim) == Min(lim * 2, VectorSearchBatchLimit)

vector_search(response, lim, nulls) ==
  IF response = DbError THEN <<>>
  ELSE Take([p \in 1..Len(response) |-> VectorRow(StoreItem(response[p], nulls), p)], lim)

(***************************************************************************)
(* fulltext_search: the rows of the query, scored by position              *)
(***************************************************************************)
\* rank_score without the floor max(0.1, score)
rank_score_unfloored(idx) == ScoreOne - idx * (ScoreOne \div 10)

rank_score(idx) == Max(ScoreOne \div 10, ScoreOne - idx * (ScoreOne \div 10))

FulltextRow(item, idx) ==
  [ id |-> item.id,
    question |-> TextOr(item.question_enriched, TextOr(item.question_raw, item.question)),
    answer |-> item.answer,
    score |-> rank_score(idx),
    match_type |-> "fulltext",
    content_type |-> item.content_type,
    course_id |-> item.course_id ]

stop_words ==
  { "how", "to", "the", "a", "an", "is", "are", "was", "were", "on", "in", "at", "for", "of",
    "with", "do", "does", "did", "can", "could", "would", "should", "will", "what", "when",
    "where", "why", "who", "which", "this", "that", "these", "those", "am", "been", "being",
    "have", "has", "had", "from", "by", "about", "into", "through", "during", "before",
    "after", "above", "below", "use", "get", "make", "go", "see", "know", "take", "find",
    "give", "tell", "work", "call", "try", "ask", "need", "feel", "become", "leave", "put",
    "my", "your", "their", "our", "its" }

\* words of two letters or fewer (len(word) > 2 fails)
ShortWords == { "a", "I", "to", "an", "is", "on", "in", "at", "of", "do", "am", "by", "go", "my" }

\* the keywords of a query: lower-cased words, no stop words, longer than 2
Keywords(words) ==
  { Lower(words[i]) : i \in {j \in 1..Len(words) :
                              Lower(words[j]) \notin stop_words /\ words[j] \notin ShortWords} }

\* column ILIKE %pattern% : a NULL column matches nothing
ILike(column, pattern) == ~column.isNone /\ Contains(LowerSeq(column.w), LowerSeq(pattern))

\* the OR condition of the query over the four text columns
ItemMatches(item, words) ==
  LET patterns == IF Keywords(words) # {} THEN {<<k>> : k \in Keywords(words)} ELSE {words}
  IN  \E pat \in patterns :
        \/ ILike(item.question, pat) \/ ILike(item.question_raw, pat)
        \/ ILike(item.question_enriched, pat) \/ ILike(item.answer, pat)

MatchingItems(words, nulls) == {id \in ItemIds : ItemMatches(StoreItem(id, nulls), words)}

fulltext_search(response, nulls) ==
  IF response = DbError THEN <<>>
  ELSE [p \in 1..Len(response) |-> FulltextRow(StoreItem(response[p], nulls), p - 1)]

(***************************************************************************)
(* hybrid_search: merge of the two result lists (a dict keyed by id, kept  *)
(* here as the sequence of its values in insertion order)                  *)
(***************************************************************************)
IndexOf(cands, id) ==
  IF \E i \in 1..Len(cands) : cands[i].id = id
  THEN CHOOSE i \in 1..Len(cands) : cands[i].id = id
  ELSE 0

AddVectorResult(cands, r) ==
  LET c == Put(Put(Put(r, "vector_score", r.score), "fulltext_score", 0), "match_type", "vector")
      i == IndexOf(cands, r.id)
  IN  IF i = 0 THEN Append(cands, c) ELSE [cands EXCEPT ![i] = c]

\* AddFulltextResult without the lookup of the id
AddFulltextResultAppend(cands, r) ==
  Append(cands,
    Put(Put(Put(r, "vector_score", 0), "fulltext_score", r.score), "match_type", "fulltext"))

AddFulltextResult(cands, r) ==
  LET i == IndexOf(cands, r.id) IN
  IF i # 0
  THEN [cands EXCEPT ![i] = Put(Put(@, "fulltext_score", r.score), "match_type", "hybrid")]
  ELSE Append(cands,
         Put(Put(Put(r, "vector_score", 0), "fulltext_score", r.score), "match_type", "fulltext"))

RECURSIVE AddVectorResults(_, _)
AddVectorResults(cands, rs) ==
  IF rs = <<>> THEN cands ELSE AddVectorResults(AddVectorResult(cands, Head(rs)), Tail(rs))

RECURSIVE AddFulltextResults(_, _)
AddFulltextResults(cands, rs) ==
  IF rs = <<>> THEN cands ELSE AddFulltextResults(AddFulltextResult(cands, Head(rs)), Tail(rs))

\* WeightedScore with the two weights exchanged
WeightedScoreSwapped(c) ==
  (FulltextWeightTenths * c.vector_score + VectorWeightTenths * c.fulltext_score) \div 10

WeightedScore(c) ==
  (VectorWeightTenths * c.vector_score + FulltextWeightTenths * c.fulltext_score) \div 10

MergeResults(vrs, frs) ==
  LET cands == AddFulltextResults(AddVectorResults(<<>>, vrs), frs)
  IN  [i \in 1..Len(cands) |-> [cands[i] EXCEPT !.score = WeightedScore(cands[i])]]

(***************************************************************************)
(* hybrid_search: boosts, directive, instructor filter, sort               *)
(***************************************************************************)
Times3(x) == x * 3
\* "by 50%" written as a multiplication by 0.5
TimesHalf(x) == x \div 2
Times1p5(x) == (x * 3) \div 2
Times10(x) == x * 10

StaticBoost(c) ==
  IF Get(c, "hierarchy_level", NoLevel) = LeafLevel
  THEN [c EXCEPT !.score = Times3(@)]
  ELSE IF c.course_id # None THEN [c EXCEPT !.score = Times1p5(@)]
  ELSE c

StaticBoostAll(cands) == [i \in 1..Len(cands) |-> StaticBoost(cands[i])]

\* The elements of s that satisfy Test, in order
RECURSIVE SelectCourse(_)
SelectCourse(s) ==
  IF s = <<>> THEN <<>>
  ELSE IF Head(s).course_id # None THEN <<Head(s)>> \o SelectCourse(Tail(s))
  ELSE SelectCourse(Tail(s))

\* ApplyDirective with the prioritize multiplier applied before, and
\* independently of, the course_only filter
ApplyDirectiveBoostFirst(cands, directive) ==
  LET boosted ==
        IF directive.prioritize_courses
        THEN [i \in 1..Len(cands) |->
                IF cands[i].course_id # None THEN [cands[i] EXCEPT !.score = Times1p5(@)]
                ELSE cands[i]]
        ELSE cands
  IN  IF directive.course_only THEN SelectCourse(boosted) ELSE boosted

ApplyDirective(cands, directive) ==
  IF directive.course_only THEN SelectCourse(cands)
  ELSE IF directive.prioritize_courses
  THEN [i \in 1..Len(cands) |->
          IF cands[i].course_id # None THEN [cands[i] EXCEPT !.score = Times1p5(@)] ELSE cands[i]]
  ELSE cands

IsTruthy(text) == ~text.isNone /\ text.w # <<>>

TitleMatches(c, filter) == Contains(LowerSeq(c.question.w), LowerSeq(filter.w))

RECURSIVE SelectMatching(_, _)
SelectMatching(s, filter) ==
  IF s = <<>> THEN <<>>
  ELSE IF TitleMatches(Head(s), filter) THEN <<Head(s)>> \o SelectMatching(Tail(s), filter)
  ELSE SelectMatching(Tail(s), filter)

\* item.get("question", "").lower() on a None title raises AttributeError
InstructorFilterRaises(cands, filter) ==
  IsTruthy(filter) /\ \E i \in 1..Len(cands) : cands[i].question.isNone

InstructorFilter(cands, filter) ==
  IF ~IsTruthy(filter) THEN cands
  ELSE LET matching == SelectMatching(cands, filter) IN
       IF matching # <<>>
       THEN [i \in 1..Len(matching) |-> [matching[i] EXCEPT !.score = Times10(@)]]
       ELSE cands

\* list.sort(key, reverse=True): descending, equal keys keep their order
RECURSIVE InsertDesc(_, _, _)
InsertDesc(sorted, x, key) ==
  IF sorted = <<>> THEN <<x>>
  ELSE IF Head(sorted)[key] >= x[key] THEN <<Head(sorted)>> \o InsertDesc(Tail(sorted), x, key)
  ELSE <<x>> \o sorted

RECURSIVE SortDesc(_, _)
SortDesc(s, key) ==
  IF s = <<>> THEN <<>>
  ELSE InsertDesc(SortDesc(SubSeq(s, 1, Len(s) - 1), key), s[Len(s)], key)

(***************************************************************************)
(* llm_adapters: the providers and the signature of generate_answer        *)
(***************************************************************************)
KnownProviders == {"openai", "gemini"}

\* Parameters of OpenAIAdapter.generate_answer and GeminiAdapter.generate_answer
GenerateAnswerParams(prov) == {"query", "context", "system_prompt"}

\* Keyword arguments of the call llm_rerank_results makes
RerankCallKeywords == {"query", "context", "system_prompt", "max_tokens"}

\* CallBinds for a generate_answer that takes any keyword
CallBindsAnyKeyword(prov) == TRUE

\* A call with a keyword the function does not take raises TypeError
CallBinds(prov) == RerankCallKeywords \subseteq GenerateAnswerParams(prov)

(***************************************************************************)
(* llm_rerank_results                                                      *)
(* A reply of the generative service is [kind, scores]: "error" the        *)
(* adapter raises, "array" the answer holds the JSON array scores, whose   *)
(* elements are scores (units of 1/400) or NonNumeric, "hang" no answer    *)
(* ever comes; any other kind is an answer that holds no JSON array.       *)
(***************************************************************************)
Reply(kind, scores) == [kind |-> kind, scores |-> scores]
Skipped == Reply("skipped", <<>>)
NoReply == Reply("none", <<>>)

ApplyScore(c, sc) ==
  Put(Put([c EXCEPT !.score = sc], "llm_relevance_score", sc), "original_score", c.score)

FirstNonNumeric(scores) ==
  IF \E i \in 1..Len(scores) : scores[i] = NonNumeric
  THEN SetMin({i \in 1..Len(scores) : scores[i] = NonNumeric})
  ELSE 0

\* Building the prompt slices result.get("question", "") and
\* result.get("answer", ""): a None value raises TypeError, outside the try
PromptRaises(results) ==
  \E i \in 1..Min(Len(results), RerankBatchSize) :
     results[i].question.isNone \/ results[i].answer.isNone

\* the except branch returning the whole list
RerankFallbackWhole(results, lim) == results

\* return results[:limit] of the except branch
RerankFallback(results, lim) == Take(results, lim)

\* return results[:limit] of the length check
RerankMismatch(results, lim) == Take(results, lim)

RerankSuccess(results, lim, scores) ==
  LET batch  == Take(results, RerankBatchSize)
      scored == [i \in 1..Len(batch) |-> ApplyScore(batch[i], scores[i])]
      sorted == SortDesc(scored, "llm_relevance_score")
  IN  Take(sorted, lim) \o Take(Drop(results, RerankBatchSize), Max(0, lim - Len(sorted)))

\* The outcome of the try block: the returned list
RerankTry(results, prov, lim, reply) ==
  LET batch == Take(results, RerankBatchSize) IN
  IF prov \notin KnownProviders THEN RerankFallback(results, lim)
  ELSE IF ~CallBinds(prov) THEN RerankFallback(results, lim)
  ELSE IF reply.kind # "array" THEN RerankFallback(results, lim)
  ELSE IF Len(reply.scores) # Len(batch) THEN RerankMismatch(results, lim)
  ELSE LET bad == FirstNonNumeric(reply.scores) IN
       IF bad # 0
       THEN \* float() raises inside the loop: the results before bad keep their new score
            RerankFallback(
              [i \in 1..Len(results) |->
                 IF i < bad THEN ApplyScore(results[i], reply.scores[i]) ELSE results[i]], lim)
       ELSE RerankSuccess(results, lim, reply.scores)

\* The exception the except branch catches (None when the try block returns)
RerankCaught(results, prov, reply) ==
  IF prov \notin KnownProviders THEN "ValueError"
  ELSE IF ~CallBinds(prov) THEN "TypeError"
  ELSE IF reply.kind = "error" THEN "Exception"
  ELSE IF reply.kind # "array" THEN "ValueError"
  ELSE IF Len(reply.scores) # Len(Take(results, RerankBatchSize)) THEN None
  ELSE IF FirstNonNumeric(reply.scores) # 0 THEN "ValueError"
  ELSE None

\* await adapter.generate_answer(...) has no timeout: once the call is bound
\* and sent, a reply that never comes leaves the coroutine suspended
RerankBlocks(results, prov, reply) ==
  /\ results # <<>> /\ ~PromptRaises(results)
  /\ prov \in KnownProviders /\ CallBinds(prov)
  /\ reply.kind = "hang"

llm_rerank_results(results, prov, lim, reply) ==
  IF results = <<>> THEN [exc |-> None, out |-> <<>>, caught |-> None]
  ELSE IF PromptRaises(results) THEN [exc |-> "TypeError", out |-> <<>>, caught |-> None]
  ELSE [exc |-> None, out |-> RerankTry(results, prov, lim, reply),
        caught |-> RerankCaught(results, prov, reply)]

\* The replies of the model to a batch of n candidates
Replies(n) ==
  { Reply("error", <<>>),
    Reply("array", [i \in 1..n |-> i * ScoreOne]),
    Reply("array", [i \in 1..(n - 1) |-> 5 * ScoreOne]),
    Reply("array", [i \in 1..n |-> IF i = Min(2, n) THEN NonNumeric ELSE 5 * ScoreOne]),
    Reply("hang", <<>>) }

(***************************************************************************)
(* hybrid_search: partition into course results and Facebook results       *)
(***************************************************************************)
IsCourseResult(c) == c.course_id # None \/ c.content_type \in {"video", "manual"}

IsFacebookResult(c) ==
  \/ c.content_type = "facebook"
  \/ (c.course_id = None /\ c.content_type \notin {"video", "manual"})

RECURSIVE course_results(_)
course_results(s) ==
  IF s = <<>> THEN <<>>
  ELSE IF IsCourseResult(Head(s)) THEN <<Head(s)>> \o course_results(Tail(s))
  ELSE course_results(Tail(s))

RECURSIVE facebook_results(_)
facebook_results(s) ==
  IF s = <<>> THEN <<>>
  ELSE IF IsFacebookResult(Head(s)) THEN <<Head(s)>> \o facebook_results(Tail(s))
  ELSE facebook_results(Tail(s))

Partition(results, lim) == Take(course_results(results), lim) \o Take(facebook_results(results), lim)

(***************************************************************************)
(* One hybrid_search call as a state machine                               *)
(***************************************************************************)
Providers == KnownProviders \cup {"acme"}

batch_multiplier == IF IsTruthy(search_directive.instructor_filter) THEN 10 ELSE 3

VectorResponses(lim) ==
  AscendingSeqs(Min(vector_batch_limit(lim), MaxVecRows)) \cup {DbError}
FulltextResponses(lim) == DistinctSeqs(Min(lim, MaxLexRows)) \cup {DbError}
\* the instructor name is known: the rows are the items that match it, in any order
InstructorResponses(name, lim, nulls) ==
  LET matching == MatchingItems(name, nulls)
      n == Min(lim, Cardinality(matching))
  IN  {q \in DistinctSeqs(n) : Len(q) = n /\ \A i \in 1..n : q[i] \in matching} \cup {DbError}

\* no second call
NoCall == [pc |-> "none"]

Init ==
  /\ pc = "start"
  /\ provider \in Providers
  /\ limit \in 1..MaxLimit
  /\ admin_input \in Guidances
  /\ null_titles \in BOOLEAN
  /\ search_directive = DefaultDirective
  /\ vector_results = <<>>
  /\ instructor_results = <<>>
  /\ fulltext_results = <<>>
  /\ combined = <<>>
  /\ final_results = <<>>
  /\ llm_reply = NoReply
  /\ rerank_error = None
  /\ reranked = <<>>
  /\ result = <<>>
  /\ raised = None
  /\ db_client = None
  /\ running = 1
  /\ other = NoCall
  /\ response_data = <<>>

\* parse the directive, get the adapter of the provider
Begin ==
  /\ pc = "start"
  /\ search_directive' = parse_admin_search_directive(admin_input)
  /\ IF provider \in KnownProviders
     THEN pc' = "embed" /\ raised' = raised
     ELSE pc' = "raised" /\ raised' = "ValueError"
  /\ UNCHANGED <<provider, limit, admin_input, null_titles, vector_results,
                 instructor_results, fulltext_results, combined, final_results,
                 llm_reply, rerank_error, reranked, result>>
  /\ UNCHANGED <<db_client, running, other, response_data>>

\* generate_embedding returns
EmbeddingOk ==
  /\ pc = "embed"
  /\ pc' = "vector"
  /\ UNCHANGED <<provider, limit, admin_input, null_titles, search_directive, vector_results,
                 instructor_results, fulltext_results, combined, final_results,
                 llm_reply, rerank_error, reranked, result, raised>>
  /\ UNCHANGED <<db_client, running, other, response_data>>

\* generate_embedding raises: return fulltext_search(query, limit, course_id)
EmbeddingFailsOn(responses) ==
  /\ pc = "embed"
  /\ \E response \in responses :
        result' = fulltext_search(response, null_titles)
  /\ pc' = "fallback"
  /\ UNCHANGED <<provider, limit, admin_input, null_titles, search_directive, vector_results,
                 instructor_results, fulltext_results, combined, final_results,
                 llm_reply, rerank_error, reranked, raised>>
  /\ db_client' = "connected"
  /\ UNCHANGED <<running, other, response_data>>

EmbeddingFails == EmbeddingFailsOn(FulltextResponses(limit))

\* vector_search is called: the RPC is sent, no keyword search has been started
VectorRequest ==
  /\ pc = "vector"
  /\ pc' = "vector_wait"
  /\ UNCHANGED <<provider, limit, admin_input, null_titles, search_directive, vector_results,
                 instructor_results, fulltext_results, combined, final_results,
                 llm_reply, rerank_error, reranked, result, raised>>
  /\ UNCHANGED <<db_client, running, other, response_data>>

\* the RPC answers (or fails) and vector_search returns
VectorSearchOn(responses) ==
  /\ pc = "vector_wait"
  /\ \E response \in responses :
        vector_results' = vector_search(response, limit * batch_multiplier, null_titles)
  /\ pc' = IF IsTruthy(search_directive.instructor_filter) THEN "instructor" ELSE "fulltext"
  /\ UNCHANGED <<provider, limit, admin_input, null_titles, search_directive,
                 instructor_results, fulltext_results, combined, final_results,
                 llm_reply, rerank_error, reranked, result, raised>>
  /\ db_client' = "connected"
  /\ UNCHANGED <<running, other, response_data>>

VectorSearch == VectorSearchOn(VectorResponses(limit * batch_multiplier))

\* the keyword search for the instructor name
InstructorSearch ==
  /\ pc = "instructor"
  /\ \E response \in InstructorResponses(search_directive.instructor_filter.w,
                                          limit * batch_multiplier, null_titles) :
        instructor_results' = fulltext_search(response, null_titles)
  /\ pc' = "fulltext"
  /\ UNCHANGED <<provider, limit, admin_input, null_titles, search_directive, vector_results,
                 fulltext_results, combined, final_results,
                 llm_reply, rerank_error, reranked, result, raised>>
  /\ db_client' = "connected"
  /\ UNCHANGED <<running, other, response_data>>

\* fulltext_search(query, ...) is called: the query is sent
FulltextRequest ==
  /\ pc = "fulltext"
  /\ pc' = "fulltext_wait"
  /\ UNCHANGED <<provider, limit, admin_input, null_titles, search_directive, vector_results,
                 instructor_results, fulltext_results, combined, final_results,
                 llm_reply, rerank_error, reranked, result, raised>>
  /\ UNCHANGED <<db_client, running, other, response_data>>

\* the keyword search for the query returns; instructor results come first
FulltextSearchOn(responses) ==
  /\ pc = "fulltext_wait"
  /\ \E response \in responses :
        fulltext_results' = instructor_results \o fulltext_search(response, null_titles)
  /\ pc' = "merge"
  /\ UNCHANGED <<provider, limit, admin_input, null_titles, search_directive, vector_results,
                 instructor_results, combined, final_results,
                 llm_reply, rerank_error, reranked, result, raised>>
  /\ db_client' = "connected"
  /\ UNCHANGED <<running, other, response_data>>

FulltextSearch == FulltextSearchOn(FulltextResponses(limit * batch_multiplier))

Merge ==
  /\ pc = "merge"
  /\ combined' = MergeResults(vector_results, fulltext_results)
  /\ pc' = "boost"
  /\ UNCHANGED <<provider, limit, admin_input, null_titles, search_directive, vector_results,
                 instructor_results, fulltext_results, final_results,
                 llm_reply, rerank_error, reranked, result, raised>>
  /\ UNCHANGED <<db_client, running, other, response_data>>

\* the default course content prioritization, then the admin directive
Boost ==
  /\ pc = "boost"
  /\ final_results' = ApplyDirective(StaticBoostAll(combined), search_directive)
  /\ pc' = "filter"
  /\ UNCHANGED <<provider, limit, admin_input, null_titles, search_directive, vector_results,
                 instructor_results, fulltext_results, combined,
                 llm_reply, rerank_error, reranked, result, raised>>
  /\ UNCHANGED <<db_client, running, other, response_data>>

\* the instructor filter, then the sort by score
FilterAndSort ==
  /\ pc = "filter"
  /\ IF InstructorFilterRaises(final_results, search_directive.instructor_filter)
     THEN /\ pc' = "raised"
          /\ raised' = "AttributeError"
          /\ final_results' = final_results
     ELSE /\ pc' = "rerank"
          /\ raised' = raised
          /\ final_results' =
               SortDesc(InstructorFilter(final_results, search_directive.instructor_filter), "score")
  /\ UNCHANGED <<provider, limit, admin_input, null_titles, search_directive, vector_results,
                 instructor_results, fulltext_results, combined,
                 llm_reply, rerank_error, reranked, result>>
  /\ UNCHANGED <<db_client, running, other, response_data>>

\* ReplyChoices without the test len(final_results) > 0
ReplyChoicesAnyLength(results) ==
  {Skipped} \cup
  (IF PromptRaises(results) THEN {NoReply}
   ELSE Replies(Min(Len(results), RerankBatchSize)))

\* what the rerank step can meet: reranking switched off, or a reply
ReplyChoices(results) ==
  {Skipped} \cup
  (IF results = <<>> THEN {}
   ELSE IF PromptRaises(results) THEN {NoReply}
   ELSE Replies(Min(Len(results), RerankBatchSize)))

\* llm_rerank_results (when enabled), then the partition and the return
RerankAndPartitionOn(replies) ==
  /\ pc = "rerank"
  /\ \E reply \in replies :
       LET r == IF reply = Skipped
                THEN [exc |-> None, out |-> final_results, caught |-> None]
                ELSE llm_rerank_results(final_results, provider, limit * 3, reply)
       IN  /\ ~RerankBlocks(final_results, provider, reply)
           /\ llm_reply' = reply
           /\ rerank_error' = r.caught
           /\ raised' = r.exc
           /\ reranked' = r.out
           /\ pc' = IF r.exc = None THEN "done" ELSE "raised"
           /\ result' = IF r.exc = None THEN Partition(r.out, limit) ELSE <<>>
  /\ UNCHANGED <<provider, limit, admin_input, null_titles, search_directive, vector_results,
                 instructor_results, fulltext_results, combined, final_results>>
  /\ UNCHANGED <<db_client, running, other, response_data>>

RerankAndPartition == RerankAndPartitionOn(ReplyChoices(final_results))

Next ==
  \/ Begin
  \/ EmbeddingOk
  \/ EmbeddingFails
  \/ VectorRequest
  \/ VectorSearch
  \/ InstructorSearch
  \/ FulltextRequest
  \/ FulltextSearch
  \/ Merge
  \/ Boost
  \/ FilterAndSort
  \/ RerankAndPartition

Spec == Init /\ [][Next]_vars

(***************************************************************************)
(* parse_admin_search_directive on its own: one call on any guidance of at *)
(* most ParseMaxWords words of ParseVocabulary, or on None                 *)
(***************************************************************************)
ParseVocabulary == {"from", "Jane", "Doe", "course", "only", "the", "transcript", "hello"}

\* ... and the guidances of the searches
ParseInputs ==
  {NoneText} \cup Guidances \cup
  UNION { {Txt(q) : q \in [1..k -> ParseVocabulary]} : k \in 0..ParseMaxWords }

InitParse ==
  /\ pc = "parse"
  /\ admin_input \in ParseInputs
  /\ provider = "openai"
  /\ limit = 1
  /\ null_titles = FALSE
  /\ search_directive = DefaultDirective
  /\ vector_results = <<>>
  /\ instructor_results = <<>>
  /\ fulltext_results = <<>>
  /\ combined = <<>>
  /\ final_results = <<>>
  /\ llm_reply = NoReply
  /\ rerank_error = None
  /\ reranked = <<>>
  /\ result = <<>>
  /\ raised = None
  /\ db_client = None
  /\ running = 1
  /\ other = NoCall
  /\ response_data = <<>>

ParseDirective ==
  /\ pc = "parse"
  /\ search_directive' = parse_admin_search_directive(admin_input)
  /\ pc' = "parsed"
  /\ UNCHANGED <<provider, limit, admin_input, null_titles, vector_results,
                 instructor_results, fulltext_results, combined, final_results,
                 llm_reply, rerank_error, reranked, result, raised>>
  /\ UNCHANGED <<db_client, running, other, response_data>>

NextParse == ParseDirective

SpecParse == InitParse /\ [][NextParse]_vars

(***************************************************************************)
(* Two hybrid_search calls on one event loop.  One call runs at a time; at *)
(* an await the running call can be suspended and the other resumed.  The  *)
(* locals of a call are its own; db (the DatabaseClient) and the datastore *)
(* are the same for both.                                                  *)
(***************************************************************************)
AwaitPoints == {"embed", "vector_wait", "instructor", "fulltext_wait", "rerank"}
Finished == {"done", "fallback", "raised"}

\* the locals of the running call
CallLocals ==
  [ pc |-> pc, provider |-> provider, limit |-> limit, admin_input |-> admin_input,
    search_directive |-> search_directive, vector_results |-> vector_results,
    instructor_results |-> instructor_results, fulltext_results |-> fulltext_results,
    combined |-> combined, final_results |-> final_results, llm_reply |-> llm_reply,
    rerank_error |-> rerank_error, reranked |-> reranked, result |-> result,
    raised |-> raised ]

\* the locals of a call that has not run yet
NewCall(prov, lim, input) ==
  [ pc |-> "start", provider |-> prov, limit |-> lim, admin_input |-> input,
    search_directive |-> DefaultDirective, vector_results |-> <<>>,
    instructor_results |-> <<>>, fulltext_results |-> <<>>,
    combined |-> <<>>, final_results |-> <<>>, llm_reply |-> NoReply,
    rerank_error |-> None, reranked |-> <<>>, result |-> <<>>, raised |-> None ]

\* Resume with final_results kept in one place for all calls
ResumeSharedResults(c) ==
  /\ pc' = c.pc /\ provider' = c.provider /\ limit' = c.limit
  /\ admin_input' = c.admin_input /\ search_directive' = c.search_directive
  /\ vector_results' = c.vector_results /\ instructor_results' = c.instructor_results
  /\ fulltext_results' = c.fulltext_results /\ combined' = c.combined
  /\ final_results' = final_results /\ llm_reply' = c.llm_reply
  /\ rerank_error' = c.rerank_error /\ reranked' = c.reranked
  /\ result' = c.result /\ raised' = c.raised

\* the call c goes on with its own locals
Resume(c) ==
  /\ pc' = c.pc /\ provider' = c.provider /\ limit' = c.limit
  /\ admin_input' = c.admin_input /\ search_directive' = c.search_directive
  /\ vector_results' = c.vector_results /\ instructor_results' = c.instructor_results
  /\ fulltext_results' = c.fulltext_results /\ combined' = c.combined
  /\ final_results' = c.final_results /\ llm_reply' = c.llm_reply
  /\ rerank_error' = c.rerank_error /\ reranked' = c.reranked
  /\ result' = c.result /\ raised' = c.raised

\* the running call waits at an await (or has ended) and the other call runs
Switch ==
  /\ pc \in AwaitPoints \cup Finished
  /\ other.pc \notin Finished \cup {"none"}
  /\ other' = CallLocals
  /\ Resume(other)
  /\ running' = 3 - running
  /\ UNCHANGED <<null_titles, db_client, response_data>>

PairGuidances == {NoneText, Txt(<<"course", "only">>)}

PairVectorResponses ==
  {q \in AscendingSeqs(PairMaxRows) : \A i \in 1..Len(q) : q[i] <= PairNumItems} \cup {DbError}
PairFulltextResponses ==
  {q \in DistinctSeqs(PairMaxRows) : \A i \in 1..Len(q) : q[i] <= PairNumItems} \cup {DbError}
PairReplyChoices(results) == {r \in ReplyChoices(results) : r.kind \in {"skipped", "error"}}

InitPair ==
  /\ pc = "start"
  /\ provider = "openai"
  /\ limit = 1
  /\ admin_input \in PairGuidances
  /\ null_titles = FALSE
  /\ search_directive = DefaultDirective
  /\ vector_results = <<>>
  /\ instructor_results = <<>>
  /\ fulltext_results = <<>>
  /\ combined = <<>>
  /\ final_results = <<>>
  /\ llm_reply = NoReply
  /\ rerank_error = None
  /\ reranked = <<>>
  /\ result = <<>>
  /\ raised = None
  /\ db_client = None
  /\ running = 1
  /\ other \in {NewCall("openai", 1, input) : input \in PairGuidances}
  /\ response_data = <<>>

PairEmbeddingFails == EmbeddingFailsOn(PairFulltextResponses)
PairVectorSearch == VectorSearchOn(PairVectorResponses)
PairFulltextSearch == FulltextSearchOn(PairFulltextResponses)
PairRerankAndPartition == RerankAndPartitionOn(PairReplyChoices(final_results))

NextPair ==
  \/ Begin
  \/ EmbeddingOk
  \/ PairEmbeddingFails
  \/ VectorRequest
  \/ PairVectorSearch
  \/ FulltextRequest
  \/ PairFulltextSearch
  \/ Merge
  \/ Boost
  \/ FilterAndSort
  \/ PairRerankAndPartition
  \/ Switch

SpecPair == InitPair /\ [][NextPair]_vars

(***************************************************************************)
(* hybrid_search under the guidances that set the two flags of the         *)
(* directive in every combination, with and without an instructor name     *)
(***************************************************************************)
DirectiveGuidances ==
  { NoneText,
    Txt(<<"prioritize", "course">>),
    Txt(<<"course", "only">>),
    Txt(<<"prioritize", "course", "only">>),
    Txt(<<"from", "Jane", "Doe", "course", "only">>) }

InitDirective ==
  /\ pc = "start"
  /\ provider = "openai"
  /\ limit \in 1..MaxLimit
  /\ admin_input \in DirectiveGuidances
  /\ null_titles = FALSE
  /\ search_directive = DefaultDirective
  /\ vector_results = <<>>
  /\ instructor_results = <<>>
  /\ fulltext_results = <<>>
  /\ combined = <<>>
  /\ final_results = <<>>
  /\ llm_reply = NoReply
  /\ rerank_error = None
  /\ reranked = <<>>
  /\ result = <<>>
  /\ raised = None
  /\ db_client = None
  /\ running = 1
  /\ other = NoCall
  /\ response_data = <<>>

SpecDirective == InitDirective /\ [][Next]_vars

(***************************************************************************)
(* fulltext_search called on its own, on a table large enough for the      *)
(* query to return up to LexMaxRows rows: the query is built with          *)
(* .limit(limit), so the database returns at most limit rows, in its order *)
(***************************************************************************)
LexicalRows(k) ==
  { [p \in 1..k |-> p], [p \in 1..k |-> k + 1 - p] }

LexicalResponses(lim) ==
  UNION { LexicalRows(k) : k \in 0..Min(lim, LexMaxRows) } \cup {DbError}

InitLexical ==
  /\ pc = "lexical"
  /\ provider = "openai"
  /\ limit \in 1..LexMaxRows
  /\ admin_input = NoneText
  /\ null_titles \in BOOLEAN
  /\ search_directive = DefaultDirective
  /\ vector_results = <<>>
  /\ instructor_results = <<>>
  /\ fulltext_results = <<>>
  /\ combined = <<>>
  /\ final_results = <<>>
  /\ llm_reply = NoReply
  /\ rerank_error = None
  /\ reranked = <<>>
  /\ result = <<>>
  /\ raised = None
  /\ db_client = None
  /\ running = 1
  /\ other = NoCall
  /\ response_data \in LexicalResponses(limit)

\* the call: the query is executed and its rows are scored by position
LexicalSearch ==
  /\ pc = "lexical"
  /\ result' = fulltext_search(response_data, null_titles)
  /\ pc' = "lexical_done"
  /\ db_client' = "connected"
  /\ UNCHANGED <<provider, limit, admin_input, null_titles, search_directive, vector_results,
                 instructor_results, fulltext_results, combined, final_results,
                 llm_reply, rerank_error, reranked, raised>>
  /\ UNCHANGED <<running, other, response_data>>

NextLexical == LexicalSearch

SpecLexical == InitLexical /\ [][NextLexical]_vars

TypeOK ==
  /\ pc \in {"start", "embed", "vector", "vector_wait", "instructor", "fulltext",
             "fulltext_wait", "merge", "boost", "parse", "parsed", "lexical", "lexical_done",
             "filter", "rerank", "done", "fallback", "raised"}
  /\ raised \in {None, "ValueError", "AttributeError", "TypeError"}
  /\ rerank_error \in {None, "ValueError", "TypeError", "Exception"}
  /\ db_client \in {None, "connected"}
  /\ running \in {1, 2}

(***************************************************************************)
(* Properties                                                              *)
(***************************************************************************)
Ids(rs) == {rs[i].id : i \in 1..Len(rs)}
ScoresOf(rs, id) == {rs[i].score : i \in {j \in 1..Len(rs) : rs[j].id = id}}
Occurrences(rs, id) == Cardinality({j \in 1..Len(rs) : rs[j].id = id})
AfterMerge == pc = "boost"

\* C1: right after the merge every candidate's score is 0.7 * v + 0.3 * l, v the
\* similarity the vector search returned for its id (0 if it returned none) and l
\* a rank score the keyword search returned for it (0 if it returned none).
C1_WeightedSum ==
  AfterMerge =>
    \A i \in 1..Len(combined) :
      LET c == combined[i]
          vs == IF c.id \in Ids(vector_results) THEN ScoresOf(vector_results, c.id) ELSE {0}
          ls == IF c.id \in Ids(fulltext_results) THEN ScoresOf(fulltext_results, c.id) ELSE {0}
      IN  \E v \in vs, l \in ls :
            c.score * 10 = VectorWeightTenths * v + FulltextWeightTenths * l

ScoreOfId(rs, id) == rs[IndexOf(rs, id)].score

\* The example of the specification: vector hits X=0.9, Y=0.8, Z=0.5 and keyword
\* hits X=1.0, W=0.9 merge to X=0.93, Y=0.56, Z=0.35, W=0.27 (X, Y, Z, W = 1, 2, 3, 4).
C1_Witness ==
  /\ AfterMerge
  /\ [i \in 1..Len(vector_results) |-> <<vector_results[i].id, vector_results[i].score>>]
       = << <<1, 360>>, <<2, 320>>, <<3, 200>> >>
  /\ [i \in 1..Len(fulltext_results) |-> <<fulltext_results[i].id, fulltext_results[i].score>>]
       = << <<1, 400>>, <<4, 360>> >>
  /\ Ids(combined) = {1, 2, 3, 4}
  /\ ScoreOfId(combined, 1) = 372
  /\ ScoreOfId(combined, 2) = 224
  /\ ScoreOfId(combined, 3) = 140
  /\ ScoreOfId(combined, 4) = 108

\* C2: after the merge an item only the vector search returned is "vector" with
\* fulltext score 0, an item only the keyword search returned is "fulltext" with
\* vector score 0, and an item both returned is "hybrid".
C2_Provenance ==
  AfterMerge =>
    \A i \in 1..Len(combined) :
      LET c == combined[i]
          inV == c.id \in Ids(vector_results)
          inF == c.id \in Ids(fulltext_results)
      IN  /\ (inV /\ ~inF) => (c.match_type = "vector" /\ c.fulltext_score = 0)
          /\ (inF /\ ~inV) => (c.match_type = "fulltext" /\ c.vector_score = 0)
          /\ (inV /\ inF) => c.match_type = "hybrid"

\* C3: after the merge there is exactly one candidate for every id the two
\* searches returned, and none for any other id.
C3_OnePerId ==
  AfterMerge =>
    /\ Ids(combined) = Ids(vector_results) \cup Ids(fulltext_results)
    /\ \A id \in Ids(combined) : Occurrences(combined, id) = 1

\* an id in both lists, and an id twice in the keyword list
C3_Witness ==
  /\ AfterMerge
  /\ \E id \in Ids(vector_results) : id \in Ids(fulltext_results)
  /\ \E id \in Ids(fulltext_results) : Occurrences(fulltext_results, id) = 2
  /\ \A id \in Ids(combined) : Occurrences(combined, id) = 1

Returned == pc \in {"done", "fallback"}
Reranked == pc = "done" /\ llm_reply # Skipped
BatchLen == Min(Len(final_results), RerankBatchSize)
WrongLengthReply == llm_reply.kind = "array" /\ Len(llm_reply.scores) # BatchLen
WellFormedReply ==
  /\ llm_reply.kind = "array"
  /\ Len(llm_reply.scores) = BatchLen
  /\ FirstNonNumeric(llm_reply.scores) = 0

\* C4: the returned list holds every item id at most once.
C4_UniqueIds ==
  Returned => \A id \in Ids(result) : Occurrences(result, id) = 1

\* C5 as stated: on a score array of the wrong length rerank returns its input
\* list, same candidates, same order, unchanged.
C5_Original ==
  (Reranked /\ WrongLengthReply) => reranked = final_results

\* C5 amended: on a score array of the wrong length rerank returns the first
\* min(n, limit) candidates of its input in their order, unchanged, limit being
\* the limit argument of the rerank (3 * the limit of the search).
C5_FallbackPrefix ==
  (Reranked /\ WrongLengthReply) => reranked = Take(final_results, limit * 3)

\* a wrong-length reply for a list longer than the limit of the rerank
C5_Witness ==
  /\ Reranked /\ WrongLengthReply
  /\ Len(final_results) > limit * 3
  /\ reranked = Take(final_results, limit * 3)

\* C6: rerank never raises to its caller.
C6_RerankNeverRaises ==
  ~(pc = "raised" /\ raised = "TypeError")

\* C7: on a well-formed array with one score per batch candidate, every
\* candidate of the batch that rerank returns carries the score returned for its
\* position before the rerank.
C7_ScoresOverwritten ==
  (Reranked /\ WellFormedReply) =>
    \A i \in 1..BatchLen :
      \A j \in 1..Len(reranked) :
        reranked[j].id = final_results[i].id => reranked[j].score = llm_reply.scores[i]

\* category A: a course id or a structured content type; category B: the rest
CategoryA(c) == c.course_id # None \/ c.content_type \in {"video", "manual"}

RECURSIVE SelectCategory(_, _)
SelectCategory(s, inA) ==
  IF s = <<>> THEN <<>>
  ELSE IF CategoryA(Head(s)) = inA THEN <<Head(s)>> \o SelectCategory(Tail(s), inA)
  ELSE SelectCategory(Tail(s), inA)

\* C8: for each category, the returned items of the category are the top
\* min(limit, n) items of the category among the merged and boosted candidates
\* (final_results is their list, ordered by score).
C8_CategoryTopSlice ==
  pc = "done" =>
    \A inA \in BOOLEAN :
      Ids(SelectCategory(result, inA)) = Ids(Take(SelectCategory(final_results, inA), limit))

\* C9: at most limit returned items per category, at most 2 * limit in all, and
\* no item outside category A before an item of category A.
C9_LimitsAndOrder ==
  Returned =>
    /\ Len(SelectCategory(result, TRUE)) <= limit
    /\ Len(SelectCategory(result, FALSE)) <= limit
    /\ Len(result) <= 2 * limit
    /\ \A i, j \in 1..Len(result) :
         (i < j /\ CategoryA(result[j])) => CategoryA(result[i])

\* merge, boost, directive, filter, sort and partition of keyword rows alone
LexicalOnlyResult(rows, directive, lim) ==
  Partition(
    SortDesc(
      InstructorFilter(
        ApplyDirective(StaticBoostAll(MergeResults(<<>>, rows)), directive),
        directive.instructor_filter),
      "score"),
    lim)

IdsAndScores(rs) == [i \in 1..Len(rs) |-> <<rs[i].id, rs[i].score>>]

\* C10: when the embedding fails the call returns what merge, boost and
\* partition give for no vector results and the keyword results (same items,
\* same order, same scores).
C10_FallbackIsPipeline ==
  pc = "fallback" =>
    IdsAndScores(result) = IdsAndScores(LexicalOnlyResult(result, search_directive, limit))

\* C11: hybrid_search never raises to its caller, whatever the provider, the
\* guidance and the failures of its sub-steps: every call ends with a list.
C11_NeverRaises ==
  pc # "raised"

\* C12: when the directive has course_only set, every returned candidate has a
\* course id, on the normal path and on the keyword-only fallback.
C12_CourseOnlyReturned ==
  (Returned /\ search_directive.course_only) =>
    \A i \in 1..Len(result) : result[i].course_id # None

\* the candidates the instructor filter step receives
BeforeFilter == ApplyDirective(StaticBoostAll(combined), search_directive)

\* the ids of the candidates whose title holds the phrase, case-insensitively
TitleHolds(cands, phrase) ==
  { cands[i].id : i \in { j \in 1..Len(cands) :
      /\ ~cands[j].question.isNone
      /\ Contains(LowerSeq(cands[j].question.w), LowerSeq(phrase.w)) } }

FilterStepDone == pc \in {"rerank", "done"} \/ (pc = "raised" /\ raised = "AttributeError")

\* C13: with an instructor filter set, when some candidate's title holds the
\* phrase the step leaves exactly the matching candidates, each with 10 times
\* its score, and the returned list holds no other candidate; when no title
\* holds it the step leaves the candidates and their scores as they were.
C13_InstructorFilterStep ==
  (FilterStepDone /\ IsTruthy(search_directive.instructor_filter)) =>
    LET matching == TitleHolds(BeforeFilter, search_directive.instructor_filter)
    IN  IF matching # {}
        THEN /\ Ids(final_results) = matching
             /\ \A id \in matching :
                  ScoresOf(final_results, id) = {10 * ScoreOfId(BeforeFilter, id)}
             /\ pc = "done" => Ids(result) \subseteq matching
        ELSE /\ Ids(final_results) = Ids(BeforeFilter)
             /\ \A id \in Ids(BeforeFilter) :
                  ScoresOf(final_results, id) = ScoresOf(BeforeFilter, id)

\* the vector retrieval has returned / a keyword retrieval has been started
VectorCompleted ==
  pc \in {"instructor", "fulltext", "fulltext_wait", "merge", "boost", "filter", "rerank", "done"}
LexicalStarted ==
  \/ pc \in {"fulltext_wait", "merge", "boost", "filter", "rerank", "done"}
  \/ (pc = "fulltext" /\ IsTruthy(search_directive.instructor_filter))
LexicalCompleted == pc \in {"merge", "boost", "filter", "rerank", "done"}

\* C14: the two retrievals of a call run concurrently: a keyword retrieval has
\* been started by the time the vector retrieval returns, and the merge starts
\* only when both have returned.
C14_RetrievalsConcurrent ==
  /\ VectorCompleted => LexicalStarted
  /\ pc = "merge" => (VectorCompleted /\ LexicalCompleted)

NoRuleMatches(g) ==
  /\ \A kw \in course_keywords \cup course_only_keywords : ~Contains(LowerSeq(g), kw)
  /\ P1Matches(g) = {} /\ P2Starts(g) = {} /\ P3Starts(g) = {}

ParsedInput == pc \notin {"start", "parse"}

BothRetrievalsEmpty == vector_results = <<>> /\ fulltext_results = <<>>

\* C19: when the vector search and the keyword searches of a call return no
\* rows, no later step raises, the rerank is not invoked and the call returns
\* the empty list.
C19_EmptyRetrievals ==
  BothRetrievalsEmpty =>
    /\ ~(pc = "raised" /\ raised \in {"AttributeError", "TypeError"})
    /\ pc = "done" => (result = <<>> /\ llm_reply = Skipped /\ rerank_error = None)

\* a call whose retrievals both failed or found nothing, returned
C19_Witness ==
  /\ pc = "done" /\ BothRetrievalsEmpty
  /\ combined = <<>> /\ final_results = <<>>
  /\ result = <<>> /\ llm_reply = Skipped

RerankFailed == Reranked /\ (rerank_error # None \/ WrongLengthReply)

AloneResult(c) ==
  LET d == parse_admin_search_directive(c.admin_input)
      ranked == SortDesc(
                  InstructorFilter(
                    ApplyDirective(
                      StaticBoostAll(MergeResults(c.vector_results, c.fulltext_results)), d),
                    d.instructor_filter),
                  "score")
      out == IF c.llm_reply = Skipped THEN ranked
             ELSE llm_rerank_results(ranked, c.provider, c.limit * 3, c.llm_reply).out
  IN  Partition(out, c.limit)

C21_HybridOnlyIfBoth ==
  AfterMerge =>
    \A i \in 1..Len(combined) :
      combined[i].match_type = "hybrid" =>
        /\ combined[i].id \in Ids(vector_results)
        /\ combined[i].id \in Ids(fulltext_results)

NonIncreasing(rs) == \A i \in 1..(Len(rs) - 1) : rs[i].score >= rs[i + 1].score

\* C22: within each category of the returned list the items are in
\* non-increasing order of score, whether the rerank was skipped, failed or
\* answered.
C22_SortedWithinCategory ==
  Returned => \A inA \in BOOLEAN : NonIncreasing(SelectCategory(result, inA))

\* the first min(n, 20) candidates with the returned scores, in non-increasing
\* order of them (equal scores in their former order), then the candidates
\* beyond the batch as they were, cut to lim
RescoredOutput(results, lim, scores) ==
  LET n == Min(Len(results), RerankBatchSize)
      rescored == [i \in 1..n |-> [results[i] EXCEPT !.score = scores[i]]]
  IN  Take(SortDesc(rescored, "score") \o SubSeq(results, n + 1, Len(results)), lim)

\* C23: when the service answers a rerank with one numeric score per batch
\* candidate, the rerank returns the batch in non-increasing order of the new
\* scores (ties in their former order), then the candidates beyond the batch
\* unchanged, cut to its limit.
C23_SuccessOutput ==
  (Reranked /\ WellFormedReply) =>
    IdsAndScores(reranked) = IdsAndScores(RescoredOutput(final_results, limit * 3, llm_reply.scores))

\* the multiplier (in tenths) the stored item calls for: 3.0 at the leaf level,
\* 1.5 in a course but not at the leaf level, 1.0 outside any course
HierarchyFactorTenths(item) ==
  IF item.hierarchy_level = LeafLevel THEN 30
  ELSE IF item.course_id # None THEN 15
  ELSE 10

\* C24: the default boost gives a candidate 3.0 times its merged score when its
\* item is at hierarchy level 4 in the datastore, 1.5 times when it has a course
\* but is not at level 4, and its merged score when it has no course (seen in
\* the calls whose directive adds no multiplier and removes no candidate).
C24_HierarchyBoost ==
  (pc = "filter" /\ ~search_directive.course_only /\ ~search_directive.prioritize_courses) =>
    /\ Len(final_results) = Len(combined)
    /\ \A i \in 1..Len(combined) :
         final_results[i].score * 10 =
           HierarchyFactorTenths(StoreItem(combined[i].id, null_titles)) * combined[i].score

\* the word starts with a capital letter
Capitalized(word) == Lower(word) # word

\* C25: the parse sets the instructor filter only to two or more consecutive
\* capitalized words of the guidance; a guidance without a capitalized word,
\* such as "check the course first", gives no instructor filter.
C25_FilterIsCapitalizedPhrase ==
  ParsedInput =>
    LET f == search_directive.instructor_filter IN
    \/ f = NoneText
    \/ /\ ~f.isNone /\ Len(f.w) >= 2
       /\ \A i \in 1..Len(f.w) : Capitalized(f.w[i])
       /\ Contains(admin_input.w, f.w)

\* C26: in every directive the parse returns, an instructor filter comes with
\* prioritize_courses true; "only share lessons from Jane Doe transcript" gives
\* prioritize_courses true and the instructor filter "Jane Doe".
C26_FilterImpliesPrioritize ==
  ParsedInput =>
    /\ IsTruthy(search_directive.instructor_filter) => search_directive.prioritize_courses
    /\ admin_input = Txt(<<"only", "share", "lessons", "from", "Jane", "Doe", "transcript">>) =>
         /\ search_directive.prioritize_courses
         /\ search_directive.instructor_filter = Txt(<<"Jane", "Doe">>)

\* a name found by the third pattern in a guidance that holds no course keyword
C26_Witness ==
  /\ pc = "parsed"
  /\ admin_input = Txt(<<"hello", "from", "Jane", "Doe">>)
  /\ search_directive.instructor_filter = Txt(<<"Jane", "Doe">>)
  /\ search_directive.prioritize_courses
  /\ \A kw \in course_keywords : ~Contains(LowerSeq(admin_input.w), kw)

\* the candidates the directive step receives
BeforeDirective == StaticBoostAll(combined)

\* C27: in the directive step, with course_only false and prioritize_courses
\* true every candidate with a course has 1.5 times its score and every other
\* candidate its score; with course_only true no candidate's score changes;
\* with both false nothing changes.
C27_DirectiveStep ==
  pc = "filter" =>
    IF search_directive.course_only
    THEN \A i \in 1..Len(final_results) :
           final_results[i].score = ScoreOfId(BeforeDirective, final_results[i].id)
    ELSE IF search_directive.prioritize_courses
    THEN /\ Len(final_results) = Len(BeforeDirective)
         /\ \A i \in 1..Len(final_results) :
              /\ final_results[i].id = BeforeDirective[i].id
              /\ IF BeforeDirective[i].course_id # None
                 THEN final_results[i].score * 2 = BeforeDirective[i].score * 3
                 ELSE final_results[i].score = BeforeDirective[i].score
    ELSE final_results = BeforeDirective

\* both flags set: a candidate with a course keeps its score through the step
C27_Witness ==
  /\ pc = "filter"
  /\ search_directive.course_only /\ search_directive.prioritize_courses
  /\ \E i \in 1..Len(final_results) :
       /\ final_results[i].course_id # None
       /\ final_results[i].score > 0
       /\ final_results[i].score = ScoreOfId(BeforeDirective, final_results[i].id)
  /\ Len(final_results) < Len(combined)

\* C28: between the merge and the rerank no step lowers a score: after the
\* default boost and the directive step, and after the instructor filter and
\* the sort, every candidate still in the list has at least the weighted sum
\* the merge gave it (retrieval scores are in [0, 1]).
C28_NeverBelowMerged ==
  pc \in {"filter", "rerank"} =>
    \A i \in 1..Len(final_results) :
      /\ final_results[i].id \in Ids(combined)
      /\ final_results[i].score >= ScoreOfId(combined, final_results[i].id)

\* after the instructor filter: one candidate was multiplied, the scores are
\* positive
C28_Witness ==
  /\ pc = "rerank"
  /\ IsTruthy(search_directive.instructor_filter)
  /\ \E i \in 1..Len(final_results) :
       /\ ScoreOfId(combined, final_results[i].id) > 0
       /\ final_results[i].score > 10 * ScoreOfId(combined, final_results[i].id)
  /\ Len(final_results) < Len(combined)

\* max(0.1, 1.0 - 0.1 * p) for the 0-based position p
PositionScore(p) == Max(ScoreOne \div 10, ScoreOne - p * (ScoreOne \div 10))

\* C29: with an instructor filter, the item the instructor search returned at
\* 0-based position p has, after the merge, a keyword score of at least
\* max(0.1, 1.0 - 0.1 * p), also when the query search returned it again
\* further down.
C29_InstructorScoreKept ==
  (AfterMerge /\ IsTruthy(search_directive.instructor_filter)) =>
    \A p \in 1..Len(instructor_results) :
      LET id == instructor_results[p].id IN
      /\ id \in Ids(combined)
      /\ combined[IndexOf(combined, id)].fulltext_score >= PositionScore(p - 1)

\* C30: the keyword search gives the row at 0-based position p the score
\* max(0.1, 1.0 - 0.1 * p): 1.0 for the first row, never more than the row
\* before, never less than 0.1; it returns the rows of the query in their
\* order, at most limit of them.
C30_RankScores ==
  (pc = "lexical_done" /\ response_data # DbError) =>
    /\ Len(result) <= limit
    /\ Len(result) = Len(response_data)
    /\ \A p \in 1..Len(result) :
         /\ result[p].id = response_data[p]
         /\ result[p].score = PositionScore(p - 1)
         /\ result[p].score >= ScoreOne \div 10
    /\ (result # <<>> => result[1].score = ScoreOne)
    /\ NonIncreasing(result)

\* eleven rows: the tenth has 0.1 by the formula, the eleventh by the floor
C30_Witness ==
  /\ pc = "lexical_done"
  /\ Len(result) = 11 /\ limit = 11
  /\ result[1].score = ScoreOne
  /\ result[9].score = 2 * (ScoreOne \div 10)
  /\ result[10].score = ScoreOne \div 10
  /\ result[11].score = ScoreOne \div 10

====
